---- MODULE Spec2Model ----
(***************************************************************************)
(* Query samplers of cardinal: RankedBatchSampler (cardinal/batch.py),     *)
(* ScoredQuerySampler and ChainQuerySampler (cardinal/base.py) and the     *)
(* AdaptiveQuerySampler of the digits-metrics example.                     *)
(*                                                                         *)
(* numpy arrays are functions over 0..n-1 (Python's indices).  Real        *)
(* numbers are exact rationals <<numerator, denominator>> with a positive  *)
(* denominator; floating-point rounding is not modelled.  Feature rows are *)
(* one-dimensional integers and the metric is the Euclidean one, |a - b|.  *)
(***************************************************************************)
EXTENDS Integers, Sequences, FiniteSets, TLC

VARIABLES
    sampler,            \* the class of the constructed sampler
    pc,                 \* "idle", "loop" (inside select_samples), "done", "error"
    batch_size,         \* BaseQuerySampler.batch_size
    X,                  \* the X argument of the current select_samples call
    returned,           \* the array select_samples returned, NoArray otherwise
    samples_weights,    \* RankedBatchSampler: the caller's samples_weights array
    weights_copy,       \* RankedBatchSampler: the local samples_weights.copy()
    unlabeled_mask,     \* RankedBatchSampler: local unlabeled_mask
    n_unlabeled,        \* RankedBatchSampler: local n_unlabeled
    similarity_scores,  \* RankedBatchSampler: local similarity_scores
    selected_samples,   \* RankedBatchSampler: local selected_samples
    strategy,           \* ScoredQuerySampler.strategy
    sample_scores_,     \* ScoredQuerySampler.sample_scores_
    sampler_list,       \* ChainQuerySampler: number of chained samplers
    first_selected,     \* ChainQuerySampler: what sampler_list[0].select_samples(X) returned
    selected,           \* ChainQuerySampler: local selected
    chain_i,            \* ChainQuerySampler: position of the loop over sampler_list[1:]
    fitted_on,          \* ChainQuerySampler: the fit calls made, each with its sampler and matrix
    X_train_size,       \* AdaptiveQuerySampler._X_train_size
    sub_fitted,         \* AdaptiveQuerySampler: size each sub-sampler was last fitted on
    sub_calls           \* AdaptiveQuerySampler: sub-sampler select_samples calls of this call

vars == <<sampler, pc, batch_size, X, returned, samples_weights, weights_copy,
          unlabeled_mask, n_unlabeled, similarity_scores, selected_samples,
          strategy, sample_scores_, sampler_list, first_selected, selected,
          chain_i, fitted_on, X_train_size, sub_fitted, sub_calls>>

rankedVars == <<samples_weights, weights_copy, unlabeled_mask, n_unlabeled,
                similarity_scores, selected_samples>>
scoredVars == <<strategy, sample_scores_>>
chainVars == <<sampler_list, first_selected, selected, chain_i, fitted_on>>
adaptiveVars == <<X_train_size, sub_fitted, sub_calls>>

----------------------------------------------------------------------------
(* Bounds of the model *)

MaxRows == 3        \* rows of X in RankedBatchSampler and ScoredQuerySampler calls
MaxChainRows == 2   \* rows of X in ChainQuerySampler and AdaptiveQuerySampler calls
MaxChain == 3       \* samplers in a ChainQuerySampler
SizeSpan == 2       \* training-set sizes range over Threshold-SizeSpan..Threshold+SizeSpan

Positions == {0, 1, 3}                          \* feature values of a row
Weights == {<<-1, 1>>, <<-1, 4>>, <<0, 1>>, <<1, 2>>}   \* -1 (labeled), -0.25, 0, 0.5
Scores == {-1, 0, 1, 2}                         \* values score_samples may give

None == "None"                  \* an attribute that holds no string
NoArray == [i \in {-1} |-> 0]   \* no array: nothing returned, an attribute not set
NoTrainSize == -1               \* _X_train_size = None
Empty == <<>>

----------------------------------------------------------------------------
(* numpy arrays and exact arithmetic *)

Len0(a) == Cardinality(DOMAIN a)

Arrays(n, S) == [0..(n - 1) -> S]

Append0(a, x) == [i \in 0..Len0(a) |-> IF i < Len0(a) THEN a[i] ELSE x]

Range0(a) == {a[i] : i \in DOMAIN a}

Abs(x) == IF x < 0 THEN -x ELSE x

RAdd(a, b) == <<a[1] * b[2] + b[1] * a[2], a[2] * b[2]>>
RSub(a, b) == <<a[1] * b[2] - b[1] * a[2], a[2] * b[2]>>
RMul(a, b) == <<a[1] * b[1], a[2] * b[2]>>
RLess(a, b) == a[1] * b[2] < b[1] * a[2]
REq(a, b) == a[1] * b[2] = b[1] * a[2]
ROne == <<1, 1>>
RZero == <<0, 1>>

\* index[mask]: the row indices whose mask entry is TRUE, in index order
MaskIndex(mask) ==
    LET cnt == Cardinality({i \in DOMAIN mask : mask[i]})
    IN [k \in 0..(cnt - 1) |->
          CHOOSE i \in DOMAIN mask :
              mask[i] /\ Cardinality({j \in DOMAIN mask : j < i /\ mask[j]}) = k]

\* a[mask]
Masked(a, mask) == LET idx == MaskIndex(mask) IN [k \in DOMAIN idx |-> a[idx[k]]]

\* metric='euclidean' on one-dimensional rows
Distance(a, b) == Abs(a - b)

MinOf(S) == CHOOSE m \in S : \A x \in S : m <= x

\* 1 / (1 + d)
SimilarityOf(d) == <<1, 1 + d>>

\* np.argmax: the first position holding the maximum
ArgMax(a) ==
    CHOOSE k \in DOMAIN a :
        /\ \A j \in DOMAIN a : ~RLess(a[k], a[j])
        /\ \A j \in DOMAIN a : j < k => RLess(a[j], a[k])

----------------------------------------------------------------------------
(* RankedBatchSampler.select_samples, cardinal/batch.py *)

LabeledCut == <<-1, 2>>     \* the -.5 of samples_weights > -.5

\* unlabeled_mask = (samples_weights > -.5)
UnlabeledMask(w) == [i \in DOMAIN w |-> RLess(LabeledCut, w[i])]

\* pairwise_distances_argmin_min(X[unlabeled_mask], X[~unlabeled_mask])[1]:
\* for each unlabeled row the distance to its nearest labeled row
NearestLabeledDistance(Xa, mask) ==
    LET idx == MaskIndex(mask)
        lab == {j \in DOMAIN Xa : ~mask[j]}
    IN [k \in DOMAIN idx |-> MinOf({Distance(Xa[idx[k]], Xa[j]) : j \in lab})]

\* similarity_scores = 1 / (1 + similarity_scores)
InitialSimilarity(Xa, mask) ==
    LET d == NearestLabeledDistance(Xa, mask)
    IN [k \in DOMAIN d |-> SimilarityOf(d[k])]

\* alpha = n_unlabeled / n_samples
Alpha(nu, n) == <<nu, n>>

\* a slip: the similarity itself is rewarded, not 1 - similarity
RankedScoresBySimilarity(alpha, sims, w, mask) ==
    LET wm == Masked(w, mask)
    IN [k \in DOMAIN sims |->
          RAdd(RMul(alpha, sims[k]), RMul(RSub(ROne, alpha), wm[k]))]

\* scores = alpha * (1 - similarity_scores) + (1 - alpha) * samples_weights[unlabeled_mask]
RankedScores(alpha, sims, w, mask) ==
    LET wm == Masked(w, mask)
    IN [k \in DOMAIN sims |->
          RAdd(RMul(alpha, RSub(ROne, sims[k])), RMul(RSub(ROne, alpha), wm[k]))]

\* idx_furthest = index[unlabeled_mask][np.argmax(scores)]
IdxFurthest(scores, mask) == MaskIndex(mask)[ArgMax(scores)]

\* sim = 1 / (1 + pairwise_distances(X[unlabeled_mask], X[idx_furthest, None])[:, 0])
SimilarityTo(Xa, mask, idx) ==
    LET idxs == MaskIndex(mask)
    IN [k \in DOMAIN idxs |-> SimilarityOf(Distance(Xa[idxs[k]], Xa[idx]))]

\* a slip: the new similarities overwrite the running ones
ElementwiseMaxOverwrite(a, b) == b

\* np.max([similarity_scores, sim], axis=0)
ElementwiseMax(a, b) == [k \in DOMAIN a |-> IF RLess(a[k], b[k]) THEN b[k] ELSE a[k]]

\* samples_weights[idx_furthest] = 0.
ZeroWeight(w, idx) == [w EXCEPT ![idx] = RZero]

\* a slip: without line 55 the local name is the caller's array, and line 81 writes it
CallerWeightsAliased(w, idx) == ZeroWeight(w, idx)

\* the caller's array after line 81: line 55 made the local array a copy, so
\* the assignment does not reach it
CallerWeights(w, idx) == w

\* two clusters on a line, 0 1 2 and 10 11 12, the first one labeled
ScenarioX == [i \in 0..5 |-> IF i < 3 THEN i ELSE i + 7]
ScenarioWeights == [i \in 0..5 |-> IF i < 3 THEN <<-1, 1>> ELSE <<1, 2>>]

RankedInputs ==
    {in \in UNION {Arrays(n, Positions) \X Arrays(n, Weights) : n \in 1..MaxRows} : TRUE}
        \cup {<<ScenarioX, ScenarioWeights>>}

\* lines 49-64: the locals before the loop.  sklearn's
\* pairwise_distances_argmin_min raises ValueError on an array with no row.
RankedCall(Xin, win) ==
    /\ sampler = "Ranked"
    /\ pc = "idle"
    /\ X' = Xin
    /\ samples_weights' = win
    /\ returned' = NoArray
    /\ LET mask == UnlabeledMask(win)
           nu == Cardinality({i \in DOMAIN mask : mask[i]})
       IN /\ unlabeled_mask' = mask
          /\ n_unlabeled' = nu
          /\ weights_copy' = win
          /\ selected_samples' = Empty
          /\ IF nu = 0 \/ nu = Len0(Xin)
             THEN /\ pc' = "error"
                  /\ similarity_scores' = Empty
             ELSE /\ pc' = "loop"
                  /\ similarity_scores' = InitialSimilarity(Xin, mask)
    /\ UNCHANGED <<sampler, batch_size, scoredVars, chainVars, adaptiveVars>>

\* lines 68-82: one iteration of for _ in range(self.batch_size)
RankedIter ==
    /\ sampler = "Ranked"
    /\ pc = "loop"
    /\ Len0(selected_samples) < batch_size
    /\ LET alpha == Alpha(n_unlabeled, Len0(X))
           scores == RankedScores(alpha, similarity_scores, weights_copy, unlabeled_mask)
           idx_furthest == IdxFurthest(scores, unlabeled_mask)
           sim == SimilarityTo(X, unlabeled_mask, idx_furthest)
       IN /\ selected_samples' = Append0(selected_samples, idx_furthest)
          /\ similarity_scores' = ElementwiseMax(similarity_scores, sim)
          /\ weights_copy' = ZeroWeight(weights_copy, idx_furthest)
          /\ samples_weights' = CallerWeights(samples_weights, idx_furthest)
          /\ UNCHANGED unlabeled_mask     \* the loop never assigns it
          /\ n_unlabeled' = n_unlabeled - 1
    /\ UNCHANGED <<sampler, pc, batch_size, X, returned, scoredVars, chainVars, adaptiveVars>>

\* line 84: return np.asarray(selected_samples)
RankedReturn ==
    /\ sampler = "Ranked"
    /\ pc = "loop"
    /\ Len0(selected_samples) = batch_size
    /\ pc' = "done"
    /\ returned' = selected_samples
    /\ UNCHANGED <<sampler, batch_size, X, rankedVars, scoredVars, chainVars, adaptiveVars>>

NullRanked ==
    /\ samples_weights = Empty /\ weights_copy = Empty /\ unlabeled_mask = Empty
    /\ n_unlabeled = 0 /\ similarity_scores = Empty /\ selected_samples = Empty
NullScored == strategy = None /\ sample_scores_ = NoArray
NullChain ==
    /\ sampler_list = 0 /\ first_selected = NoArray /\ selected = NoArray
    /\ chain_i = 0 /\ fitted_on = Empty
NullAdaptive == X_train_size = NoTrainSize /\ sub_fitted = Empty /\ sub_calls = Empty

\* RankedBatchSampler(batch_size)
InitRanked ==
    /\ sampler = "Ranked"
    /\ pc = "idle"
    /\ batch_size \in 0..(MaxRows + 1)
    /\ X = Empty
    /\ returned = NoArray
    /\ NullRanked /\ NullScored /\ NullChain /\ NullAdaptive

NextRanked ==
    \/ pc = "idle" /\ \E in \in RankedInputs : RankedCall(in[1], in[2])
    \/ RankedIter
    \/ RankedReturn

SpecRanked == InitRanked /\ [][NextRanked]_vars

----------------------------------------------------------------------------
(* Properties of RankedBatchSampler.select_samples *)

Distinct(a) == \A i, j \in DOMAIN a : i # j => a[i] # a[j]

\* rows of the input with samples_weights > -.5
Eligible(w) == {i \in DOMAIN w : RLess(LabeledCut, w[i])}

\* at least one labeled row, and 1 <= batch_size <= number of eligible rows
ValidRankedInput ==
    /\ Eligible(samples_weights) # DOMAIN samples_weights
    /\ 1 <= batch_size
    /\ batch_size <= Cardinality(Eligible(samples_weights))

\* the loop is about to run an iteration
IterationStart == sampler = "Ranked" /\ pc = "loop" /\ Len0(selected_samples) < batch_size

\* C1: for every valid input the returned sequence has exactly batch_size
\* entries, pairwise distinct, each a row index of X, none labeled in the input.
C1_ReturnsDistinctEligible ==
    (sampler = "Ranked" /\ ValidRankedInput /\ pc # "loop" /\ pc # "idle") =>
        /\ pc = "done"
        /\ Len0(returned) = batch_size
        /\ Distinct(returned)
        /\ Range0(returned) \subseteq Eligible(samples_weights)

\* C9: at the start of every iteration no row selected earlier is among the
\* rows scored, and the number of rows scored equals n_unlabeled.
C9_SelectedLeavesScoredSet ==
    (IterationStart /\ ValidRankedInput) =>
        /\ Range0(MaskIndex(unlabeled_mask)) \cap Range0(selected_samples) = {}
        /\ Len0(similarity_scores) = n_unlabeled

\* the reference set: rows labeled in the input and rows selected so far
ReferenceRows == (DOMAIN X \ Eligible(samples_weights)) \cup Range0(selected_samples)

NearestReferenceDistance(r) == MinOf({Distance(X[r], X[j]) : j \in ReferenceRows})

\* C10: at the loop head the running similarity of every scored row equals
\* 1/(1+d), d its distance to the nearest row of the reference set.
C10_SimilarityIsNearestReference ==
    (sampler = "Ranked" /\ pc = "loop") =>
        LET idx == MaskIndex(unlabeled_mask)
        IN /\ DOMAIN similarity_scores = DOMAIN idx
           /\ \A k \in DOMAIN idx :
                 REq(similarity_scores[k], SimilarityOf(NearestReferenceDistance(idx[k])))

\* a pick has been made and it raised the running similarity of a scored row
\* that is not itself picked: its nearest reference is now the picked row
C10_Witness ==
    /\ IterationStart
    /\ Len0(selected_samples) >= 1
    /\ LET idx == MaskIndex(unlabeled_mask)
           init == InitialSimilarity(X, unlabeled_mask)
       IN \E k \in DOMAIN idx :
             /\ idx[k] \notin Range0(selected_samples)
             /\ RLess(init[k], similarity_scores[k])
             /\ RLess(similarity_scores[k], ROne)

\* the first pick of the call has been made
FirstPickMade == sampler = "Ranked" /\ pc \in {"loop", "done"} /\ Len0(selected_samples) >= 1

LabeledRows == DOMAIN samples_weights \ Eligible(samples_weights)

\* one labeled row, and the same prior weight on every unlabeled row
SingleLabeledEqualWeights ==
    /\ Cardinality(LabeledRows) = 1
    /\ \A i, j \in Eligible(samples_weights) : REq(samples_weights[i], samples_weights[j])

\* distance of row r to the single labeled row
DistanceToLabeled(r) == LET l == CHOOSE l \in LabeledRows : TRUE IN Distance(X[r], X[l])

\* C12: with a single labeled point and equal prior weights the first pick is
\* an unlabeled row at maximum distance from the labeled point (so never a
\* closer one when distances differ); for X = 0,1,2,10,11,12 with weights
\* [-1,-1,-1,0.5,0.5,0.5] and batch_size 1 the returned index is 3, 4 or 5.
C12_FirstPickIsFarthest ==
    /\ (FirstPickMade /\ SingleLabeledEqualWeights) =>
           /\ selected_samples[0] \in Eligible(samples_weights)
           /\ \A j \in Eligible(samples_weights) :
                  DistanceToLabeled(selected_samples[0]) >= DistanceToLabeled(j)
    /\ (sampler = "Ranked" /\ pc = "done" /\ X = ScenarioX
            /\ samples_weights = ScenarioWeights /\ batch_size = 1) =>
           (Len0(returned) = 1 /\ returned[0] \in {3, 4, 5})

\* the first pick was made among unlabeled rows at different distances from
\* the single labeled point
C12_Witness ==
    /\ FirstPickMade /\ SingleLabeledEqualWeights
    /\ \E j \in Eligible(samples_weights) :
           DistanceToLabeled(j) < DistanceToLabeled(selected_samples[0])
    /\ \E j \in Eligible(samples_weights) : DistanceToLabeled(j) = 0

\* C13: the call leaves its inputs as they were: from the entry of
\* select_samples on, no step changes the caller's weight vector, X or the
\* sampler's batch_size; the zeroing of a picked row's weight stays in the copy.
C13_InputsUnchanged ==
    [][(sampler = "Ranked" /\ pc # "idle") =>
          (samples_weights' = samples_weights /\ X' = X /\ batch_size' = batch_size)]_vars

\* the call returned after zeroing, in its copy, a weight that is not zero in
\* the caller's vector
C13_Witness ==
    /\ sampler = "Ranked" /\ pc = "done"
    /\ \E i \in Range0(returned) :
           /\ ~REq(samples_weights[i], RZero)
           /\ REq(weights_copy[i], RZero)
    /\ \A i \in DOMAIN samples_weights \ Range0(returned) :
           weights_copy[i] = samples_weights[i]

\* the two-cluster call has returned its single pick
C12_ScenarioReturned ==
    /\ sampler = "Ranked" /\ pc = "done" /\ batch_size = 1
    /\ X = ScenarioX /\ samples_weights = ScenarioWeights

----------------------------------------------------------------------------
(* ScoredQuerySampler.select_samples, cardinal/base.py *)

Strategies == {"top", "linear_choice", "squared_choice", "bottom"}

Permutations0(n) == {p \in Arrays(n, 0..(n - 1)) : \A i, j \in 0..(n - 1) : i # j => p[i] # p[j]}

\* np.argsort(sample_scores): kind defaults to 'quicksort', which numpy documents
\* as not stable, so every ascending order of the scores is a possible result
ArgSort(scores) ==
    {p \in Permutations0(Len0(scores)) :
        \A i, j \in DOMAIN p : i < j => scores[p[i]] <= scores[p[j]]}

\* a slip: a[:k], the head of the ascending order
LastSliceHead(a, k) ==
    LET n == Len0(a)
        m == IF k >= n THEN n ELSE k
    IN [i \in 0..(m - 1) |-> a[i]]

\* a[-k:] for k >= 0: a[-0:] is a[0:], and a slice start before the array is clipped
LastSlice(a, k) ==
    LET n == Len0(a)
        start == IF k = 0 \/ k >= n THEN 0 ELSE n - k
    IN [i \in 0..(n - start - 1) |-> a[start + i]]

\* sample_scores ** 2
Squared(scores) == [i \in DOMAIN scores |-> scores[i] * scores[i]]

SumOf(a) ==
    LET RECURSIVE upto(_)
        upto(k) == IF k < 0 THEN 0 ELSE a[k] + upto(k - 1)
    IN upto(Len0(a) - 1)

\* rows whose p = score / np.sum(scores) is > 0, resp. < 0
PositiveP(scores) == {i \in DOMAIN scores : scores[i] * SumOf(scores) > 0}
NegativeP(scores) == {i \in DOMAIN scores : scores[i] * SumOf(scores) < 0}

\* RandomState.choice raises ValueError: p holds NaN (the sum of the scores is
\* 0), p holds a negative entry, size exceeds the population, or fewer entries
\* of p are non-zero than size
ChoiceRaises(scores, size) ==
    \/ SumOf(scores) = 0
    \/ NegativeP(scores) # {}
    \/ size > Len0(scores)
    \/ Cardinality(PositiveP(scores)) < size

\* a slip: replace=True, rows may repeat
ChoiceWithReplacement(scores, size) ==
    IF ChoiceRaises(scores, size) THEN {} ELSE Arrays(size, PositiveP(scores))

\* random_state.choice(np.arange(n), size=size, replace=False, p=scores / np.sum(scores)):
\* the arrays it can return; none when it raises
Choice(scores, size) ==
    IF ChoiceRaises(scores, size) THEN {}
    ELSE {a \in Arrays(size, PositiveP(scores)) : \A i, j \in DOMAIN a : i # j => a[i] # a[j]}

\* index = np.argsort(sample_scores)[-self.batch_size:]
TopOutcomes(scores, size) == {LastSlice(p, size) : p \in ArgSort(scores)}

\* a slip: an unknown strategy falls back to the default 'top'
UnknownStrategyFallsBack(scores, size) == {LastSlice(p, size) : p \in ArgSort(scores)}

\* the else branch: raise ValueError('Unknown sample selection strategy')
UnknownStrategyOutcomes(scores, size) == {}

\* lines 88-102: the arrays the call can return; none when it raises
ScoredOutcomes(strat, scores, size) ==
    CASE strat = "top" -> TopOutcomes(scores, size)
      [] strat = "linear_choice" -> Choice(scores, size)
      [] strat = "squared_choice" -> Choice(Squared(scores), size)
      [] OTHER -> UnknownStrategyOutcomes(scores, size)

\* X enters select_samples only through X.shape[0] and score_samples(X)
ScoredInputs == UNION {Arrays(n, {0}) \X Arrays(n, Scores) : n \in 1..MaxRows}

\* select_samples of a subclass whose score_samples(X) gives `scores`
ScoredCall(Xin, scores) ==
    /\ sampler = "Scored"
    /\ pc = "idle"
    /\ X' = Xin
    /\ sample_scores_' = scores
    /\ LET outs == ScoredOutcomes(strategy, scores, batch_size)
       IN \/ outs = {} /\ pc' = "error" /\ returned' = NoArray
          \/ \E index \in outs : pc' = "done" /\ returned' = index
    /\ UNCHANGED <<sampler, batch_size, strategy, rankedVars, chainVars, adaptiveVars>>

\* select_samples of ScoredQuerySampler itself: score_samples raises NotImplementedError
ScoredCallAbstract(Xin) ==
    /\ sampler = "ScoredAbstract"
    /\ pc = "idle"
    /\ X' = Xin
    /\ pc' = "error"
    /\ returned' = NoArray
    /\ UNCHANGED <<sampler, batch_size, scoredVars, rankedVars, chainVars, adaptiveVars>>

\* ScoredQuerySampler(batch_size, strategy)
InitScored ==
    /\ sampler \in {"Scored", "ScoredAbstract"}
    /\ pc = "idle"
    /\ batch_size \in 0..(MaxRows + 1)
    /\ strategy \in Strategies
    /\ sample_scores_ = NoArray
    /\ X = Empty
    /\ returned = NoArray
    /\ NullRanked /\ NullChain /\ NullAdaptive

NextScored ==
    \/ pc = "idle" /\ \E in \in ScoredInputs : ScoredCall(in[1], in[2])
    \/ pc = "idle" /\ \E in \in ScoredInputs : ScoredCallAbstract(in[1])

SpecScored == InitScored /\ [][NextScored]_vars

----------------------------------------------------------------------------
(* Properties of ScoredQuerySampler.select_samples *)

Returned == sampler = "Scored" /\ pc = "done"

Ended == pc \in {"done", "error"}

\* the scores at the returned rows are the batch_size largest of the vector
ReturnsLargest ==
    /\ Len0(returned) = batch_size
    /\ Distinct(returned)
    /\ Range0(returned) \subseteq DOMAIN sample_scores_
    /\ \A i \in Range0(returned) : \A j \in DOMAIN sample_scores_ \ Range0(returned) :
           sample_scores_[i] >= sample_scores_[j]

\* among equal scores at the cut-off the rows of lowest index are returned
LowestIndexWinsTies ==
    \A i \in Range0(returned) : \A j \in DOMAIN sample_scores_ \ Range0(returned) :
        sample_scores_[i] = sample_scores_[j] => i < j

TopCase == strategy = "top" /\ 1 <= batch_size /\ batch_size <= Len0(X)

\* C3 as stated: with 'top' and 1 <= batch_size <= rows, the returned rows hold
\* the batch_size largest scores and ties at the cut-off go to the lowest index.
C3_TopLargestLowestIndexTies ==
    (Returned /\ TopCase) => (ReturnsLargest /\ LowestIndexWinsTies)

\* C3 amended: with 'top' and 1 <= batch_size <= rows, the returned rows are
\* batch_size distinct rows holding the batch_size largest scores.
C3_TopLargest == (Returned /\ TopCase) => ReturnsLargest

\* equal scores straddle the cut-off of a returned top batch
C3_Witness ==
    /\ Returned /\ TopCase
    /\ \E i \in Range0(returned) : \E j \in DOMAIN sample_scores_ \ Range0(returned) :
           sample_scores_[i] = sample_scores_[j]
    /\ \E i \in Range0(returned) : \E j \in DOMAIN sample_scores_ \ Range0(returned) :
           sample_scores_[i] > sample_scores_[j]

WeightedCase == sampler = "Scored" /\ strategy \in {"linear_choice", "squared_choice"}

BatchOfDistinctRows ==
    /\ Len0(returned) = batch_size
    /\ Distinct(returned)
    /\ Range0(returned) \subseteq DOMAIN X

SomeNegative == \E i \in DOMAIN sample_scores_ : sample_scores_[i] < 0
SomePositive == \E i \in DOMAIN sample_scores_ : sample_scores_[i] > 0
AllZero == \A i \in DOMAIN sample_scores_ : sample_scores_[i] = 0

KnownStrategies == {"top", "linear_choice", "squared_choice"}

\* C8: with a strategy other than the three known ones the call ends in an
\* error and returns no index set, whatever X and batch_size are.
C8_UnknownStrategyRaises ==
    (sampler \in {"Scored", "ScoredAbstract"} /\ strategy \notin KnownStrategies /\ pc # "idle")
        => (pc = "error" /\ returned = NoArray)

\* an unknown strategy met scores it could have ranked
C8_Witness ==
    /\ sampler = "Scored" /\ strategy \notin KnownStrategies
    /\ pc = "error"
    /\ sample_scores_ # NoArray
    /\ 1 <= batch_size /\ batch_size <= Len0(X)

----------------------------------------------------------------------------
(* ChainQuerySampler, cardinal/base.py *)

\* the arrays of pairwise distinct row indices of an n-row X: what the first
\* sampler's select_samples(X) may return
IndexArrays(n) ==
    UNION {{a \in Arrays(m, 0..(n - 1)) : \A i, j \in DOMAIN a : i # j => a[i] # a[j]}
              : m \in 0..n}

\* integer predictions of a later sampler; MaxChainRows is out of range for every selection
PredictedInts == -1..MaxChainRows

\* selected[new_selected] for a boolean new_selected of the length of selected
TakeMask(sel, mask) == Masked(sel, mask)

\* selected[new_selected] for an integer new_selected raises IndexError
IndexOutOfRange(sel, ind) ==
    \E k \in DOMAIN ind : ind[k] >= Len0(sel) \/ ind[k] < -Len0(sel)

\* a slip: the prediction is taken as the selection itself
TakeIndexRaw(sel, ind) == ind

\* selected[new_selected] for an integer new_selected: negative entries count from the end
TakeIndex(sel, ind) ==
    [k \in DOMAIN ind |-> IF ind[k] < 0 THEN sel[Len0(sel) + ind[k]] ELSE sel[ind[k]]]

\* X[selected]
Rows(Xa, sel) == [k \in DOMAIN sel |-> Xa[sel[k]]]

ChainInputs ==
    UNION {Arrays(n, Positions) \X IndexArrays(n) : n \in 1..MaxChainRows}

\* the training matrices given to ChainQuerySampler.fit
TrainInputs == Arrays(1, Positions)

\* the fit call sampler_list[i].fit(data)
FitCall(i, data) == [sampler |-> i, data |-> data]

\* lines 115-126: fit fits sampler_list[0] on X; once, before select_samples
ChainFit(Xtrain) ==
    /\ sampler = "Chain"
    /\ pc = "idle"
    /\ fitted_on = Empty
    /\ fitted_on' = Append0(fitted_on, FitCall(0, Xtrain))
    /\ UNCHANGED <<sampler, pc, batch_size, X, returned, sampler_list, first_selected,
                   selected, chain_i, rankedVars, scoredVars, adaptiveVars>>

\* line 137: selected = self.sampler_list[0].select_samples(X)
ChainCall(Xin, first) ==
    /\ sampler = "Chain"
    /\ pc = "idle"
    /\ X' = Xin
    /\ first_selected' = first
    /\ selected' = first
    /\ chain_i' = 1
    /\ pc' = "loop"
    /\ UNCHANGED <<sampler, batch_size, returned, sampler_list, fitted_on, rankedVars,
                   scoredVars, adaptiveVars>>

\* lines 140-142 when sampler.predict(X[selected]) gives a boolean array
ChainStepMask(new_selected) ==
    /\ sampler = "Chain"
    /\ pc = "loop"
    /\ chain_i < sampler_list
    /\ fitted_on' = Append0(fitted_on, FitCall(chain_i, X))     \* sampler.fit(X)
    /\ selected' = TakeMask(selected, new_selected)
    /\ chain_i' = chain_i + 1
    /\ UNCHANGED <<sampler, pc, batch_size, X, returned, sampler_list, first_selected,
                   rankedVars, scoredVars, adaptiveVars>>

\* lines 140-142 when sampler.predict(X[selected]) gives an integer array
ChainStepIndex(new_selected) ==
    /\ sampler = "Chain"
    /\ pc = "loop"
    /\ chain_i < sampler_list
    /\ fitted_on' = Append0(fitted_on, FitCall(chain_i, X))     \* sampler.fit(X)
    /\ IF IndexOutOfRange(selected, new_selected)
       THEN pc' = "error" /\ UNCHANGED <<selected, chain_i>>
       ELSE /\ selected' = TakeIndex(selected, new_selected)
            /\ chain_i' = chain_i + 1
            /\ pc' = pc
    /\ UNCHANGED <<sampler, batch_size, X, returned, sampler_list, first_selected,
                   rankedVars, scoredVars, adaptiveVars>>

\* line 144: return selected
ChainReturn ==
    /\ sampler = "Chain"
    /\ pc = "loop"
    /\ chain_i = sampler_list
    /\ pc' = "done"
    /\ returned' = selected
    /\ UNCHANGED <<sampler, batch_size, X, chainVars, rankedVars, scoredVars, adaptiveVars>>

\* ChainQuerySampler(*sampler_list)
InitChain ==
    /\ sampler = "Chain"
    /\ pc = "idle"
    /\ batch_size = 0
    /\ X = Empty
    /\ returned = NoArray
    /\ sampler_list \in 1..MaxChain
    /\ first_selected = NoArray /\ selected = NoArray /\ chain_i = 0 /\ fitted_on = Empty
    /\ NullRanked /\ NullScored /\ NullAdaptive

NextChain ==
    \/ pc = "idle" /\ \E Xtrain \in TrainInputs : ChainFit(Xtrain)
    \/ pc = "idle" /\ \E in \in ChainInputs : ChainCall(in[1], in[2])
    \/ pc = "loop" /\ \E new_selected \in Arrays(Len0(selected), BOOLEAN) :
                          ChainStepMask(new_selected)
    \/ pc = "loop" /\ \E new_selected \in Arrays(Len0(selected), PredictedInts) :
                          ChainStepIndex(new_selected)
    \/ ChainReturn

SpecChain == InitChain /\ [][NextChain]_vars

----------------------------------------------------------------------------
(* Properties of ChainQuerySampler.select_samples *)

\* C5: whatever the later samplers predict, every index of the running and of
\* the returned selection is one the first sampler returned.
C5_ChainWithinFirstSelection ==
    (sampler = "Chain" /\ pc \in {"loop", "done"}) =>
        /\ Range0(selected) \subseteq Range0(first_selected)
        /\ pc = "done" => (returned = selected /\ Range0(returned) \subseteq Range0(first_selected))

\* later samplers reordered or filtered a selection of two rows and left some of it
C5_Witness ==
    /\ sampler = "Chain" /\ pc = "done"
    /\ sampler_list >= 2
    /\ Len0(first_selected) >= 2
    /\ Len0(returned) >= 1
    /\ returned # first_selected

\* a step that makes a fit call
FitStep == sampler = "Chain" /\ Len0(fitted_on') = Len0(fitted_on) + 1

\* the fit call a FitStep makes
NewFit == fitted_on'[Len0(fitted_on)]

\* C11: in select_samples every later sampler is fitted on X restricted to the
\* rows selected so far, before its prediction over those rows filters the
\* selection; ChainQuerySampler.fit fits the first sampler only.
C11_LaterSamplersFittedOnSelection ==
    [][FitStep =>
          IF pc = "idle"
          THEN NewFit.sampler = 0
          ELSE /\ NewFit.sampler = chain_i
               /\ NewFit.sampler >= 1
               /\ NewFit.data = Rows(X, selected)]_vars

----------------------------------------------------------------------------
(* AdaptiveQuerySampler, plot_digits_metrics.py *)

Threshold == 50     \* if self._X_train_size <= 50

TrainSizes == (Threshold - SizeSpan)..(Threshold + SizeSpan)

Unfitted == [s \in {"exploration", "exploitation"} |-> NoTrainSize]

\* a slip: the comparison is strict
AdaptiveRouteStrict(size) == IF size < Threshold THEN "exploration" ELSE "exploitation"

\* a slip: the branches are exchanged
AdaptiveRouteSwapped(size) == IF size <= Threshold THEN "exploitation" ELSE "exploration"

\* lines 104-107: the sub-sampler whose select_samples is called
AdaptiveRoute(size) == IF size <= Threshold THEN "exploration" ELSE "exploitation"

AdaptiveInputs ==
    UNION {Arrays(n, Positions) \X IndexArrays(n) : n \in 1..MaxChainRows}

\* lines 97-101: fit records X_train.shape[0] and fits both sub-samplers
AdaptiveFit(size) ==
    /\ sampler = "Adaptive"
    /\ pc \in {"idle", "done", "error"}
    /\ X_train_size' = size
    /\ sub_fitted' = [s \in {"exploration", "exploitation"} |-> size]
    /\ sub_calls' = Empty
    /\ returned' = NoArray
    /\ pc' = "idle"
    /\ UNCHANGED <<sampler, batch_size, X, rankedVars, scoredVars, chainVars>>

\* lines 103-107 before any fit: None <= 50 raises TypeError
AdaptiveSelectUnfitted(Xin) ==
    /\ sampler = "Adaptive"
    /\ pc \in {"idle", "done", "error"}
    /\ X_train_size = NoTrainSize
    /\ X' = Xin
    /\ sub_calls' = Empty
    /\ returned' = NoArray
    /\ pc' = "error"
    /\ UNCHANGED <<sampler, batch_size, X_train_size, sub_fitted, rankedVars, scoredVars,
                   chainVars>>

\* lines 103-107: the routed sub-sampler's select_samples(X) gives `result`
AdaptiveSelect(Xin, result) ==
    /\ sampler = "Adaptive"
    /\ pc \in {"idle", "done", "error"}
    /\ X_train_size # NoTrainSize
    /\ X' = Xin
    /\ sub_calls' = Append0(Empty, [sampler |-> AdaptiveRoute(X_train_size),
                                    fitted |-> sub_fitted[AdaptiveRoute(X_train_size)],
                                    X |-> Xin, result |-> result])
    /\ returned' = result
    /\ pc' = "done"
    /\ UNCHANGED <<sampler, batch_size, X_train_size, sub_fitted, rankedVars, scoredVars,
                   chainVars>>

\* AdaptiveQuerySampler(exploration_sampler, exploitation_sampler)
InitAdaptive ==
    /\ sampler = "Adaptive"
    /\ pc = "idle"
    /\ batch_size = 0
    /\ X = Empty
    /\ returned = NoArray
    /\ X_train_size = NoTrainSize
    /\ sub_fitted = Unfitted
    /\ sub_calls = Empty
    /\ NullRanked /\ NullScored /\ NullChain

NextAdaptive ==
    \/ \E size \in TrainSizes : AdaptiveFit(size)
    \/ \E in \in AdaptiveInputs : AdaptiveSelectUnfitted(in[1])
    \/ \E in \in AdaptiveInputs : AdaptiveSelect(in[1], in[2])

SpecAdaptive == InitAdaptive /\ [][NextAdaptive]_vars

----------------------------------------------------------------------------
(* Properties of AdaptiveQuerySampler *)

AdaptiveReturned == sampler = "Adaptive" /\ pc = "done"

\* the call `who`.select_samples(X) was made on the sub-sampler as last fitted
\* and what it gave is what select_samples returned
ReturnsWhat(who) ==
    \E k \in DOMAIN sub_calls :
        /\ sub_calls[k].sampler = who
        /\ sub_calls[k].X = X
        /\ sub_calls[k].fitted = X_train_size
        /\ sub_calls[k].result = returned

\* C6: after any fits, select_samples(X) returns what the exploration sampler's
\* select_samples(X) returns when the size recorded by the latest fit is <= 50,
\* and what the exploitation sampler's returns when it is > 50.
C6_AdaptiveEqualsRoutedSampler ==
    AdaptiveReturned =>
        /\ X_train_size <= 50 => ReturnsWhat("exploration")
        /\ X_train_size > 50 => ReturnsWhat("exploitation")

\* a call returned rows with the recorded size exactly at the threshold
C6_Witness ==
    /\ AdaptiveReturned
    /\ X_train_size = 50
    /\ Len0(returned) >= 1
    /\ ReturnsWhat("exploration")

\* the sub-samplers whose select_samples was called during the call
CalledSamplers == {sub_calls[k].sampler : k \in DOMAIN sub_calls}

OnlyCalled(who) ==
    /\ Len0(sub_calls) = 1
    /\ CalledSamplers = {who}
    /\ returned = sub_calls[0].result

\* C7 as stated: exploration while the recorded size is below 50, exploitation
\* from 50 on; exactly one sub-sampler is called and its result returned as is.
C7_RoutesBelowThreshold ==
    AdaptiveReturned =>
        IF X_train_size < 50 THEN OnlyCalled("exploration") ELSE OnlyCalled("exploitation")

\* C7 amended: exploration while the recorded size is at most 50, exploitation
\* from 51 on; exactly one sub-sampler is called and its result returned as is.
C7_RoutesUpToThreshold ==
    AdaptiveReturned =>
        IF X_train_size < 51 THEN OnlyCalled("exploration") ELSE OnlyCalled("exploitation")

\* a call made with the recorded size just past the threshold went to exploitation
C7_Witness ==
    /\ AdaptiveReturned
    /\ X_train_size = 51
    /\ Len0(returned) >= 1
    /\ OnlyCalled("exploitation")

----------------------------------------------------------------------------
(* All samplers *)

Init == InitRanked \/ InitScored \/ InitChain \/ InitAdaptive

Next == NextRanked \/ NextScored \/ NextChain \/ NextAdaptive

Spec == Init /\ [][Next]_vars

\* C2: when batch_size exceeds the number of eligible rows (rows with weight >
\* -0.5 for RankedBatchSampler, rows of X for 'top') the call ends in an error
\* and returns nothing.
C2_TooLargeBatchRaises ==
    /\ (sampler = "Ranked" /\ pc \in {"done", "error"}
            /\ batch_size > Cardinality(Eligible(samples_weights)))
           => (pc = "error" /\ returned = NoArray)
    /\ (sampler = "Scored" /\ strategy = "top" /\ pc \in {"done", "error"}
            /\ batch_size > Len0(X))
           => (pc = "error" /\ returned = NoArray)

====
